---- MODULE Spec2Model ----
(***************************************************************************)
(* A model of the LogosAPI bridge of src/index.js: the lifecycle flags,    *)
(* the two registries (callbacks, eventListeners), the event pump, the     *)
(* plugin operations and the reflective call surface, together with the    *)
(* native runtime seen as a black box that is handed callbacks and may     *)
(* invoke them while its event queue is drained.                           *)
(***************************************************************************)
EXTENDS Integers, Sequences, FiniteSets, TLC

\* ------------------------------------------------------------------ bounds
\* Number of callbacks (calls + subscriptions) created in one run.
MaxCalls == 2
\* Number of times one callback is invoked by the native side in one run.
MaxFire == 2
\* Length of the name list given to processAndLoadPlugins.
MaxNames == 2
\* Number of arguments of a reflective call.
MaxArgs == 2

\* --------------------------------------------------------------- constants
NULL == "null"
LIB == "liblogos_core"

\* Paths of the file system the resolution rules of index.js look at.
SdkLib == "sdk/lib/liblogos_core"
LegacyLib == "legacy/build/lib/liblogos_core"
CustomLib == "custom/liblogos_core"
CwdPlugins == "cwd/plugins"
CwdModules == "cwd/modules"
LegacyModules == "legacy/build/modules"
CustomPlugins == "custom/plugins"

\* Error texts thrown by index.js.
ErrAlreadyInit == "LogosAPI is already initialized"
ErrInitFailed == "Failed to initialize LogosAPI"
ErrInitBeforeStart == "LogosAPI must be initialized before starting"
ErrAlreadyStarted == "LogosAPI is already started"
ErrNotInit == "LogosAPI must be initialized first"
ErrProcess == "Failed to process plugin"
ErrLoad == "Failed to load plugin"
ErrPumpRunning == "Event processing is already running"

\* The values _generateCallbackId returns in a run (callback_<time>_<random>).
CallIds == {"callback_1_k3x", "callback_2_p7q"}
NoId == ""
PluginNames == {"chat", "waku"}
\* The plugin the calls and subscriptions of a run are addressed to.
CallTargets == {"chat"}
Platforms == {"darwin", "win32", "linux"}
\* The names read on the bridge as plugins.
ProxyNames == PluginNames
\* Members of the bridge object ('prop in target'): methods and fields.
BridgeMembers == {"init", "start", "exec", "cleanup", "options", "callbacks"}
\* The strings the Map _pluginProxies can be keyed by.
CacheKeys == ProxyNames \cup BridgeMembers

VARIABLES
  options,                 \* this.options: [libPath, pluginsDir, autoInit]
  env,                     \* the host: [platform, exists (paths that exist)]
  nativePluginsDir,        \* the directory the native side was last given by
                           \* logos_core_set_plugins_dir ("": none yet)
  LogosCore,               \* this.LogosCore: NULL or the loaded library
  isInitialized,           \* this.isInitialized
  isStarted,               \* this.isStarted
  eventProcessingInterval, \* this.eventProcessingInterval: 0 (null) or a timer
  timers,                  \* the interval timers scheduled in the host loop
  callbacks,               \* this.callbacks: CallId -> callback (0: no entry)
  eventListeners,          \* this.eventListeners: CallId -> callback (0: none)
  calls,                   \* every FFI callback created, in creation order
  _pluginProxies,          \* this._pluginProxies: name -> proxy (NoProxy: none)
  pc,                      \* position inside cleanup(), "idle" outside it
  crashed,                 \* the process died on a collected FFI callback
  last,                    \* the most recent operation and how it ended
  nativeLog,               \* the native entry points that operation called
  invoked,                 \* the user functions that operation invoked
  results                  \* the map that operation returned, when it was
                           \* processAndLoadPlugins

vars == <<options, env, nativePluginsDir, LogosCore, isInitialized, isStarted,
          eventProcessingInterval, timers, callbacks, eventListeners, calls,
          _pluginProxies, pc, crashed, last, nativeLog, invoked, results>>

bridge == <<LogosCore, isInitialized, isStarted, eventProcessingInterval,
            timers, callbacks, eventListeners, calls>>

\* ----------------------------------------------------------------- values
\* A JavaScript value as the handlers see it.
Val(tag, str, fields) == [tag |-> tag, str |-> str, fields |-> fields]
Undefined == Val("undefined", "", {})
ErrorVal(text) == Val("error", text, {})

\* The message texts the native side delivers.
MsgObject == "{\"status\":\"ok\"}"
MsgPlain == "plain text"
Messages == {MsgObject, MsgPlain}
ResultCodes == {0, 1, 2}

\* JSON.parse whose failure is not caught: the handler is left without the
\* raw text.
JSONParse_NoRawText(message) ==
  CASE message = MsgObject -> [ok |-> TRUE, value |-> Val("object", "", {<<"status", "ok">>})]
    [] OTHER -> [ok |-> TRUE, value |-> Undefined]

\* JSON.parse on the message texts: the decoded value, or "throws".
JSONParse(message) ==
  CASE message = MsgObject -> [ok |-> TRUE, value |-> Val("object", "", {<<"status", "ok">>})]
    [] OTHER -> [ok |-> FALSE, value |-> Undefined]

\* One native call: the entry point and the arguments it was given.
\* ret, code: what the native side returned (a string or pointer, an int).
NativeCall(fn) ==
  [fn |-> fn, plugin |-> "", method |-> "", params |-> <<>>, dir |-> "",
   ext |-> "", cb |-> 0, ret |-> "", code |-> 0]

\* A plugin proxy: the instance (0: none) and the name it is bound to.
NoProxy == [instance |-> 0, pluginName |-> ""]

\* How an operation ended.
\* arg: the argument it was called with; for init(), which takes none, the
\* library path it loaded ("": none).
\* id: the CallId returned; delivered, rc, message: the callback the native
\* side invoked during the operation (0: none) and what it passed; list,
\* args: the names and the arguments it was given; proxy, property, route:
\* the proxy a property access returned, the property read on a proxy and
\* the rule that resolved it.
Outcome(op, arg, result, error) ==
  [op |-> op, arg |-> arg, result |-> result, error |-> error,
   errPlugin |-> "", id |-> NoId, delivered |-> 0, rc |-> 0, message |-> "",
   list |-> <<>>, args |-> <<>>, proxy |-> NoProxy, property |-> "",
   route |-> ""]
Throws(op, arg, error) == Outcome(op, arg, "throw", error)

NoResults == [n \in PluginNames |->
                [present |-> FALSE, processed |-> "unset", loaded |-> "unset",
                 error |-> ""]]

Idle == pc = "idle" /\ ~crashed

\* --------------------------------------------------------- path resolution
_getLibraryExtension(platform) ==
  CASE platform = "darwin" -> ".dylib"
    [] platform = "win32" -> ".dll"
    [] OTHER -> ".so"

\* _loadLibrary trying the legacy build tree before the SDK's own lib
\* directory.
ResolveLibPath_LegacyFirst(opts, e) ==
  IF opts.libPath # NULL THEN opts.libPath
  ELSE IF LegacyLib \in e.exists THEN LegacyLib ELSE SdkLib

\* _loadLibrary: the path it settles on, before the existence check.
ResolveLibPath(opts, e) ==
  IF opts.libPath # NULL THEN opts.libPath
  ELSE IF SdkLib \in e.exists THEN SdkLib ELSE LegacyLib

\* The plugins directory as _initializeCore and processPlugin compute it.
ResolvePluginsDir(opts, e) ==
  IF opts.pluginsDir # NULL THEN opts.pluginsDir
  ELSE IF CwdPlugins \in e.exists THEN CwdPlugins
  ELSE IF CwdModules \in e.exists THEN CwdModules
  ELSE LegacyModules

\* init() on a bridge that is not initialized: the library is loaded when it
\* exists, logos_core_init is called, and the plugins directory is set when
\* it exists; any failure is rethrown as "Failed to initialize LogosAPI".
\* lib: the path handed to ffi.Library ("": the library was not loaded);
\* dir: the directory handed to logos_core_set_plugins_dir ("": none).
InitEffect(opts, e, core) ==
  LET libPath == ResolveLibPath(opts, e)
      pluginsDir == ResolvePluginsDir(opts, e)
  IN IF libPath \notin e.exists
       THEN [ok |-> FALSE, core |-> core, lib |-> "", dir |-> "",
             log |-> <<>>]
     ELSE IF pluginsDir \notin e.exists
       THEN [ok |-> FALSE, core |-> LIB, lib |-> libPath, dir |-> "",
             log |-> <<NativeCall("logos_core_init")>>]
     ELSE [ok |-> TRUE, core |-> LIB, lib |-> libPath, dir |-> pluginsDir,
           log |-> <<NativeCall("logos_core_init"),
                     [NativeCall("logos_core_set_plugins_dir")
                        EXCEPT !.dir = pluginsDir]>>]

\* ------------------------------------------------------------ construction
\* The state after new LogosAPI(options): with autoInit the constructor has
\* run init(), and a constructor whose init() threw yields no bridge.
Constructed(opts, e) ==
  /\ options = opts
  /\ env = e
  /\ isStarted = FALSE
  /\ eventProcessingInterval = 0
  /\ timers = {}
  /\ callbacks = [i \in CallIds |-> 0]
  /\ eventListeners = [i \in CallIds |-> 0]
  /\ calls = <<>>
  /\ _pluginProxies = [n \in CacheKeys |-> NoProxy]
  /\ pc = "idle"
  /\ crashed = FALSE
  /\ invoked = <<>>
  /\ results = NoResults
  /\ last = Outcome("constructor", "", "void", "")
  /\ IF opts.autoInit
       THEN /\ InitEffect(opts, e, NULL).ok
            /\ LogosCore = LIB
            /\ isInitialized = TRUE
            /\ nativePluginsDir = InitEffect(opts, e, NULL).dir
            /\ nativeLog = InitEffect(opts, e, NULL).log
       ELSE /\ LogosCore = NULL
            /\ isInitialized = FALSE
            /\ nativePluginsDir = ""
            /\ nativeLog = <<>>

DefaultEnv == [platform |-> "linux", exists |-> {SdkLib, CwdPlugins}]

Init ==
  \E auto \in BOOLEAN :
    Constructed([libPath |-> NULL, pluginsDir |-> NULL, autoInit |-> auto],
                DefaultEnv)

\* ---------------------------------------------------------------- lifecycle
\* init() without its already-initialized check.
init_NoGuard ==
  /\ Idle
  /\ invoked' = <<>>
  /\ results' = NoResults
  /\ LET r == InitEffect(options, env, LogosCore)
     IN /\ LogosCore' = r.core
        /\ nativePluginsDir' = IF r.ok THEN r.dir ELSE nativePluginsDir
        /\ nativeLog' = r.log
        /\ isInitialized' = r.ok
        /\ last' = IF r.ok THEN Outcome("init", r.lib, "true", "")
                   ELSE Throws("init", r.lib, ErrInitFailed)
  /\ UNCHANGED <<options, env, _pluginProxies,
                 isStarted, eventProcessingInterval, timers,
                 callbacks, eventListeners, calls, pc, crashed>>

init ==
  /\ Idle
  /\ invoked' = <<>>
  /\ IF isInitialized
       THEN /\ last' = Throws("init", "", ErrAlreadyInit)
            /\ nativeLog' = <<>>
            /\ UNCHANGED LogosCore
            /\ UNCHANGED isInitialized
            /\ UNCHANGED nativePluginsDir
       ELSE LET r == InitEffect(options, env, LogosCore)
            IN /\ LogosCore' = r.core
               /\ nativePluginsDir' = IF r.ok THEN r.dir
                                      ELSE nativePluginsDir
               /\ nativeLog' = r.log
               /\ isInitialized' = r.ok
               /\ last' = IF r.ok THEN Outcome("init", r.lib, "true", "")
                          ELSE Throws("init", r.lib, ErrInitFailed)
  /\ results' = NoResults
  /\ UNCHANGED <<options, env, _pluginProxies,
                 isStarted, eventProcessingInterval, timers,
                 callbacks, eventListeners, calls, pc, crashed>>

\* start() without its already-started check.
start_NoStartedGuard ==
  /\ Idle
  /\ invoked' = <<>>
  /\ IF ~isInitialized
       THEN /\ last' = Throws("start", "", ErrInitBeforeStart)
            /\ nativeLog' = <<>>
            /\ UNCHANGED isStarted
     ELSE /\ nativeLog' = <<NativeCall("logos_core_start")>>
          /\ isStarted' = TRUE
          /\ last' = Outcome("start", "", "true", "")
  /\ results' = NoResults
  /\ UNCHANGED <<options, env, nativePluginsDir, _pluginProxies,
                 LogosCore, isInitialized,
                 eventProcessingInterval, timers, callbacks, eventListeners,
                 calls, pc, crashed>>

start ==
  /\ Idle
  /\ invoked' = <<>>
  /\ IF ~isInitialized
       THEN /\ last' = Throws("start", "", ErrInitBeforeStart)
            /\ nativeLog' = <<>>
            /\ UNCHANGED isStarted
     ELSE IF isStarted
       THEN /\ last' = Throws("start", "", ErrAlreadyStarted)
            /\ nativeLog' = <<>>
            /\ UNCHANGED isStarted
     ELSE /\ nativeLog' = <<NativeCall("logos_core_start")>>
          /\ isStarted' = TRUE
          /\ last' = Outcome("start", "", "true", "")
  /\ results' = NoResults
  /\ UNCHANGED <<options, env, nativePluginsDir, _pluginProxies,
                 LogosCore, isInitialized,
                 eventProcessingInterval, timers, callbacks, eventListeners,
                 calls, pc, crashed>>

\* setInterval: a timer the host loop does not hold yet.
NewTimer(active) == CHOOSE t \in 1..(Cardinality(active) + 1) : t \notin active

\* startEventProcessing() without its already-running check: a second
\* interval is scheduled and the first is no longer referenced.
startEventProcessing_NoGuard ==
  /\ Idle
  /\ Cardinality(timers) < 3
  /\ invoked' = <<>>
  /\ nativeLog' = <<>>
  /\ eventProcessingInterval' = NewTimer(timers)
  /\ timers' = timers \cup {NewTimer(timers)}
  /\ last' = Outcome("startEventProcessing", "", "true", "")
  /\ results' = NoResults
  /\ UNCHANGED <<options, env, nativePluginsDir, _pluginProxies,
                 LogosCore, isInitialized, isStarted, callbacks,
                 eventListeners, calls, pc, crashed>>

startEventProcessing ==
  /\ Idle
  /\ invoked' = <<>>
  /\ nativeLog' = <<>>
  /\ IF eventProcessingInterval # 0
       THEN /\ last' = Throws("startEventProcessing", "", ErrPumpRunning)
            /\ UNCHANGED <<eventProcessingInterval, timers>>
       ELSE /\ eventProcessingInterval' = NewTimer(timers)
            /\ timers' = timers \cup {NewTimer(timers)}
            /\ last' = Outcome("startEventProcessing", "", "true", "")
  /\ results' = NoResults
  /\ UNCHANGED <<options, env, nativePluginsDir, _pluginProxies,
                 LogosCore, isInitialized, isStarted, callbacks,
                 eventListeners, calls, pc, crashed>>

\* stopEventProcessing() forgetting the interval without clearInterval.
stopEventProcessing_KeepsTimer ==
  /\ Idle
  /\ invoked' = <<>>
  /\ nativeLog' = <<>>
  /\ IF eventProcessingInterval # 0
       THEN /\ timers' = timers
            /\ eventProcessingInterval' = 0
            /\ last' = Outcome("stopEventProcessing", "", "true", "")
       ELSE /\ last' = Outcome("stopEventProcessing", "", "false", "")
            /\ UNCHANGED <<eventProcessingInterval, timers>>
  /\ results' = NoResults
  /\ UNCHANGED <<options, env, nativePluginsDir, _pluginProxies,
                 LogosCore, isInitialized, isStarted, callbacks,
                 eventListeners, calls, pc, crashed>>

stopEventProcessing ==
  /\ Idle
  /\ invoked' = <<>>
  /\ nativeLog' = <<>>
  /\ IF eventProcessingInterval # 0
       THEN /\ timers' = timers \ {eventProcessingInterval}
            /\ eventProcessingInterval' = 0
            /\ last' = Outcome("stopEventProcessing", "", "true", "")
       ELSE /\ last' = Outcome("stopEventProcessing", "", "false", "")
            /\ UNCHANGED <<eventProcessingInterval, timers>>
  /\ results' = NoResults
  /\ UNCHANGED <<options, env, nativePluginsDir, _pluginProxies,
                 LogosCore, isInitialized, isStarted, callbacks,
                 eventListeners, calls, pc, crashed>>

\* cleanup(), statement by statement: the pump is stopped on entry ...
cleanup ==
  /\ Idle
  /\ invoked' = <<>>
  /\ nativeLog' = <<>>
  /\ timers' = timers \ {eventProcessingInterval}
  /\ eventProcessingInterval' = 0
  /\ last' = Outcome("cleanup", "", "running", "")
  /\ pc' = "cleanup_native"
  /\ results' = NoResults
  /\ UNCHANGED <<options, env, nativePluginsDir, _pluginProxies,
                 LogosCore, isInitialized, isStarted, callbacks,
                 eventListeners, calls, crashed>>

\* ... then logos_core_cleanup is called when a library was ever loaded ...
cleanup_native ==
  /\ pc = "cleanup_native"
  /\ nativeLog' = IF LogosCore # NULL
                    THEN Append(nativeLog, NativeCall("logos_core_cleanup"))
                    ELSE nativeLog
  /\ pc' = "cleanup_clear"
  /\ results' = NoResults
  /\ UNCHANGED <<options, env, nativePluginsDir, _pluginProxies,
                 LogosCore, isInitialized, isStarted,
                 eventProcessingInterval, timers, callbacks, eventListeners,
                 calls, crashed, last, invoked>>

\* cleanup() clearing the callbacks and leaving the event listeners.
cleanup_clear_KeepListeners ==
  /\ pc = "cleanup_clear"
  /\ callbacks' = [i \in CallIds |-> 0]
  /\ pc' = "cleanup_flags"
  /\ UNCHANGED <<options, env, nativePluginsDir, _pluginProxies,
                 LogosCore, isInitialized, isStarted,
                 eventProcessingInterval, timers, eventListeners, calls,
                 crashed, last, nativeLog, invoked, results>>

\* ... then both registries are cleared ...
cleanup_clear ==
  /\ pc = "cleanup_clear"
  /\ callbacks' = [i \in CallIds |-> 0]
  /\ eventListeners' = [i \in CallIds |-> 0]
  /\ pc' = "cleanup_flags"
  /\ results' = NoResults
  /\ UNCHANGED <<options, env, nativePluginsDir, _pluginProxies,
                 LogosCore, isInitialized, isStarted,
                 eventProcessingInterval, timers, calls, crashed, last,
                 nativeLog, invoked>>

\* ... and last the flags are reset and cleanup() returns.
\* cleanup() resetting isInitialized and leaving isStarted as it is.
cleanup_flags_KeepsStarted ==
  /\ pc = "cleanup_flags"
  /\ isInitialized' = FALSE
  /\ isStarted' = isStarted
  /\ last' = Outcome("cleanup", "", "void", "")
  /\ pc' = "idle"
  /\ results' = NoResults
  /\ UNCHANGED <<options, env, nativePluginsDir, _pluginProxies,
                 LogosCore, eventProcessingInterval, timers,
                 callbacks, eventListeners, calls, crashed, nativeLog, invoked>>

cleanup_flags ==
  /\ pc = "cleanup_flags"
  /\ isInitialized' = FALSE
  /\ isStarted' = FALSE
  /\ last' = Outcome("cleanup", "", "void", "")
  /\ pc' = "idle"
  /\ results' = NoResults
  /\ UNCHANGED <<options, env, nativePluginsDir, _pluginProxies,
                 LogosCore, eventProcessingInterval, timers,
                 callbacks, eventListeners, calls, crashed, nativeLog, invoked>>

\* ------------------------------------------------------------ plugin queries
\* What the native side hands back for a plugin list: a null pointer, or an
\* array of C strings closed by a null entry.
NativeArrays ==
  { [isNull |-> TRUE, cells |-> <<>>],
    [isNull |-> FALSE, cells |-> <<NULL>>],
    [isNull |-> FALSE, cells |-> <<"chat", "waku", NULL>>] }

RECURSIVE ReadCells(_, _, _)
ReadCells(cells, i, result) ==
  IF cells[i + 1] = NULL THEN result
  ELSE ReadCells(cells, i + 1, Append(result, cells[i + 1]))

_convertCStringArrayToJS(cStringArray) ==
  IF cStringArray.isNull THEN <<>> ELSE ReadCells(cStringArray.cells, 0, <<>>)

PluginQuery(op, fn) ==
  /\ Idle
  /\ invoked' = <<>>
  /\ IF ~isInitialized
       THEN /\ last' = Throws(op, "", ErrNotInit)
            /\ nativeLog' = <<>>
       ELSE \E ptr \in NativeArrays :
              /\ nativeLog' = <<NativeCall(fn)>>
              /\ last' = [Outcome(op, "", "list", "")
                            EXCEPT !.list = _convertCStringArrayToJS(ptr)]
  /\ results' = NoResults
  /\ UNCHANGED <<options, env, nativePluginsDir, _pluginProxies,
                 LogosCore, isInitialized, isStarted,
                 eventProcessingInterval, timers, callbacks, eventListeners,
                 calls, pc, crashed>>

getLoadedPlugins ==
  PluginQuery("getLoadedPlugins", "logos_core_get_loaded_plugins")

getKnownPlugins ==
  PluginQuery("getKnownPlugins", "logos_core_get_known_plugins")

\* ---------------------------------------------------------- plugin operations
\* logos_core_process_plugin returns a string or null; load and unload an int.
ProcessReturns == {NULL, "", "{\"name\":\"chat\"}"}
LoadReturns == {0, 1, 2}

\* !!result on what logos_core_process_plugin returned.
Truthy(ret) == ret # NULL /\ ret # ""

\* The native call processPlugin issues: the plugin file is looked up in the
\* plugins directory as resolved at the time of the call.
ProcessCall(pluginName, ret) ==
  [NativeCall("logos_core_process_plugin")
     EXCEPT !.plugin = pluginName,
            !.dir = ResolvePluginsDir(options, env),
            !.ext = _getLibraryExtension(env.platform),
            !.ret = ret]

LoadCall(fn, pluginName, code) ==
  [NativeCall(fn) EXCEPT !.plugin = pluginName, !.code = code]

\* processPlugin without its initialized check.
processPluginRun_NoGuard(pluginName, ret) ==
  [threw |-> FALSE, error |-> "", value |-> Truthy(ret),
   log |-> <<ProcessCall(pluginName, ret)>>]

\* processPlugin(pluginName) given what the native call returns: whether it
\* threw, the value returned, the native calls made.
processPluginRun(pluginName, ret) ==
  IF ~isInitialized
    THEN [threw |-> TRUE, error |-> ErrNotInit, value |-> FALSE, log |-> <<>>]
    ELSE [threw |-> FALSE, error |-> "", value |-> Truthy(ret),
          log |-> <<ProcessCall(pluginName, ret)>>]

\* loadPlugin(pluginName) / unloadPlugin(pluginName), likewise.
loadPluginRun(fn, pluginName, code) ==
  IF ~isInitialized
    THEN [threw |-> TRUE, error |-> ErrNotInit, value |-> FALSE, log |-> <<>>]
    ELSE [threw |-> FALSE, error |-> "", value |-> code = 1,
          log |-> <<LoadCall(fn, pluginName, code)>>]

Bool(b) == IF b THEN "true" ELSE "false"

\* An operation that only calls into the native side and reports.
Report(outcome, log) ==
  /\ Idle
  /\ last' = outcome
  /\ nativeLog' = log
  /\ invoked' = <<>>
  /\ results' = NoResults
  /\ UNCHANGED <<options, env, nativePluginsDir, _pluginProxies,
                 LogosCore, isInitialized, isStarted,
                 eventProcessingInterval, timers, callbacks, eventListeners,
                 calls, pc, crashed>>

processPlugin ==
  \E pluginName \in PluginNames, ret \in ProcessReturns :
    LET r == processPluginRun(pluginName, ret)
    IN Report(IF r.threw THEN Throws("processPlugin", pluginName, r.error)
              ELSE Outcome("processPlugin", pluginName, Bool(r.value), ""),
              r.log)

loadPlugin ==
  \E pluginName \in PluginNames, code \in LoadReturns :
    LET r == loadPluginRun("logos_core_load_plugin", pluginName, code)
    IN Report(IF r.threw THEN Throws("loadPlugin", pluginName, r.error)
              ELSE Outcome("loadPlugin", pluginName, Bool(r.value), ""),
              r.log)

unloadPlugin ==
  \E pluginName \in PluginNames, code \in LoadReturns :
    LET r == loadPluginRun("logos_core_unload_plugin", pluginName, code)
    IN Report(IF r.threw THEN Throws("unloadPlugin", pluginName, r.error)
              ELSE Outcome("unloadPlugin", pluginName, Bool(r.value), ""),
              r.log)

\* processAndLoadPlugin going on to load after a failed process step.
processAndLoadPluginRun_LoadAnyway(pluginName, ret, code) ==
  LET p == processPluginRun(pluginName, ret)
      l == loadPluginRun("logos_core_load_plugin", pluginName, code)
  IN IF p.threw
       THEN [outcome |-> Throws("processAndLoadPlugin", pluginName, p.error),
             log |-> p.log]
     ELSE IF l.threw
       THEN [outcome |-> Throws("processAndLoadPlugin", pluginName, l.error),
             log |-> p.log \o l.log]
     ELSE IF ~p.value \/ ~l.value
       THEN [outcome |-> [Throws("processAndLoadPlugin", pluginName,
                                 IF ~p.value THEN ErrProcess ELSE ErrLoad)
                            EXCEPT !.errPlugin = pluginName],
             log |-> p.log \o l.log]
     ELSE [outcome |-> Outcome("processAndLoadPlugin", pluginName, "true", ""),
           log |-> p.log \o l.log]

\* processAndLoadPlugin(pluginName): process, then load, stopping at the
\* first step that throws or returns false.
processAndLoadPluginRun(pluginName, ret, code) ==
  LET p == processPluginRun(pluginName, ret)
      l == loadPluginRun("logos_core_load_plugin", pluginName, code)
  IN IF p.threw
       THEN [outcome |-> Throws("processAndLoadPlugin", pluginName, p.error),
             log |-> p.log]
     ELSE IF ~p.value
       THEN [outcome |-> [Throws("processAndLoadPlugin", pluginName, ErrProcess)
                            EXCEPT !.errPlugin = pluginName],
             log |-> p.log]
     ELSE IF l.threw
       THEN [outcome |-> Throws("processAndLoadPlugin", pluginName, l.error),
             log |-> p.log \o l.log]
     ELSE IF ~l.value
       THEN [outcome |-> [Throws("processAndLoadPlugin", pluginName, ErrLoad)
                            EXCEPT !.errPlugin = pluginName],
             log |-> p.log \o l.log]
     ELSE [outcome |-> Outcome("processAndLoadPlugin", pluginName, "true", ""),
           log |-> p.log \o l.log]

processAndLoadPlugin ==
  \E pluginName \in PluginNames, ret \in ProcessReturns, code \in LoadReturns :
    LET r == processAndLoadPluginRun(pluginName, ret, code)
    IN Report(r.outcome, r.log)

\* The first loop leaving the batch at the first name that fails to process.
RECURSIVE ProcessLoop_AbortOnFailure(_, _, _, _)
ProcessLoop_AbortOnFailure(pluginNames, rets, i, acc) ==
  IF i > Len(pluginNames) THEN acc
  ELSE LET name == pluginNames[i]
           r == processPluginRun(name, rets[i])
           rec == [present |-> TRUE, processed |-> Bool(~r.threw /\ r.value),
                   loaded |-> "unset", error |-> r.error]
           next == [map |-> [acc.map EXCEPT ![name] = rec],
                    log |-> acc.log \o r.log]
       IN IF rec.processed = "false" THEN next
          ELSE ProcessLoop_AbortOnFailure(pluginNames, rets, i + 1, next)

\* processAndLoadPlugins, first loop: results[name] = {processed} or, when
\* processPlugin throws, {processed: false, error}.
RECURSIVE ProcessLoop(_, _, _, _)
ProcessLoop(pluginNames, rets, i, acc) ==
  IF i > Len(pluginNames) THEN acc
  ELSE LET name == pluginNames[i]
           r == processPluginRun(name, rets[i])
           rec == [present |-> TRUE, processed |-> Bool(~r.threw /\ r.value),
                   loaded |-> "unset", error |-> r.error]
       IN ProcessLoop(pluginNames, rets, i + 1,
            [map |-> [acc.map EXCEPT ![name] = rec], log |-> acc.log \o r.log])

\* The second loop loading every name, processed or not.
RECURSIVE LoadLoop_Always(_, _, _, _)
LoadLoop_Always(pluginNames, codes, i, acc) ==
  IF i > Len(pluginNames) THEN acc
  ELSE LET name == pluginNames[i]
           code == IF i \in DOMAIN codes THEN codes[i] ELSE 1
           r == loadPluginRun("logos_core_load_plugin", name, code)
       IN LoadLoop_Always(pluginNames, codes, i + 1,
            [map |-> [acc.map EXCEPT
                        ![name].loaded = Bool(~r.threw /\ r.value),
                        ![name].error = IF r.threw THEN r.error ELSE @],
             log |-> acc.log \o r.log])

\* Second loop: loadPlugin for every name whose record says processed.
RECURSIVE LoadLoop(_, _, _, _)
LoadLoop(pluginNames, codes, i, acc) ==
  IF i > Len(pluginNames) THEN acc
  ELSE LET name == pluginNames[i]
           r == loadPluginRun("logos_core_load_plugin", name, codes[i])
       IN IF acc.map[name].processed = "true"
            THEN LoadLoop(pluginNames, codes, i + 1,
                   [map |-> [acc.map EXCEPT
                               ![name].loaded = Bool(~r.threw /\ r.value),
                               ![name].error = IF r.threw THEN r.error ELSE @],
                    log |-> acc.log \o r.log])
            ELSE LoadLoop(pluginNames, codes, i + 1, acc)

processAndLoadPluginsRun(pluginNames, rets, codes) ==
  LoadLoop(pluginNames, codes, 1,
           ProcessLoop(pluginNames, rets, 1, [map |-> NoResults, log |-> <<>>]))

NameLists == UNION {[1..n -> PluginNames] : n \in 0..MaxNames}

\* The positions of the list whose load step runs, given what the process
\* calls return.
LoadPositions(pluginNames, rets) ==
  LET processed == ProcessLoop(pluginNames, rets, 1,
                               [map |-> NoResults, log |-> <<>>])
  IN {i \in 1..Len(pluginNames) : processed.map[pluginNames[i]].processed = "true"}

\* What the native side returns to the calls of a batch: a failure or a
\* success for each.
BatchProcessReturns == {NULL, "{\"name\":\"chat\"}"}
BatchLoadReturns == {0, 1}

\* The native returns are drawn for the calls that are made: none on a
\* bridge that is not initialized, a load return only where load is called.
processAndLoadPlugins ==
  /\ Idle
  /\ \E pluginNames \in NameLists :
       \E rets \in [1..Len(pluginNames) ->
                      IF isInitialized THEN BatchProcessReturns ELSE {NULL}] :
         \E codes \in [LoadPositions(pluginNames, rets) -> BatchLoadReturns] :
           LET r == processAndLoadPluginsRun(pluginNames, rets, codes)
           IN /\ results' = r.map
              /\ nativeLog' = r.log
              /\ last' = [Outcome("processAndLoadPlugins", "", "map", "")
                            EXCEPT !.list = pluginNames]
  /\ invoked' = <<>>
  /\ UNCHANGED <<options, env, nativePluginsDir, _pluginProxies,
                 LogosCore, isInitialized, isStarted,
                 eventProcessingInterval, timers, callbacks, eventListeners,
                 calls, pc, crashed>>

\* ------------------------------------------------------- calls and listeners
\* An FFI callback made by _createFFICallback around a user callback:
\*   id      the callbackId it was made for
\*   reg     the registry that holds it ("callbacks" or "eventListeners")
\*   via     "direct": the user's own function; "reflective": the wrapper
\*           built by the plugin proxy (a promise or a listener wrapper)
\*   fired   how many times the user's function (the callback, or the
\*           listener behind a listener wrapper) has been invoked
\*   promise, value   the promise of a reflective method call
Callback(id, reg, via) ==
  [id |-> id, reg |-> reg, via |-> via, fired |-> 0,
   promise |-> IF reg = "callbacks" /\ via = "reflective" THEN "pending"
               ELSE "none",
   value |-> Undefined]

\* _generateCallbackId: callback_<Date.now()>_<random suffix>, any value of
\* the id space.
_generateCallbackId == CallIds

\* The registry keeps the FFI callback referenced; one that no registry
\* holds any more may be collected.
Retained(h) ==
  \E i \in CallIds : callbacks[i] = h \/ eventListeners[i] = h

\* The body shared by callPluginMethodAsync and registerEventListener once
\* the initialized check has passed.
\* The registration invoking the user callback itself, before the native
\* side delivers anything.
Register_InvokesAtOnce(base, reg, via, fn, plugin, name, params) ==
  /\ Len(calls) < MaxCalls
  /\ \E id \in _generateCallbackId :
       LET h == Len(calls) + 1
       IN /\ calls' = Append(calls, [Callback(id, reg, via) EXCEPT !.fired = 1])
          /\ IF reg = "callbacks"
               THEN /\ callbacks' = [callbacks EXCEPT ![id] = h]
                    /\ UNCHANGED eventListeners
               ELSE /\ eventListeners' = [eventListeners EXCEPT ![id] = h]
                    /\ UNCHANGED callbacks
          /\ nativeLog' = <<[NativeCall(fn) EXCEPT !.plugin = plugin,
                               !.method = name, !.params = params, !.cb = h]>>
          /\ last' = [base EXCEPT !.id = id]

\* base: the outcome the caller reports, completed with the id generated.
Register(base, reg, via, fn, plugin, name, params) ==
  /\ Len(calls) < MaxCalls
  /\ \E id \in _generateCallbackId :
       LET h == Len(calls) + 1
       IN /\ calls' = Append(calls, Callback(id, reg, via))
          /\ IF reg = "callbacks"
               THEN /\ callbacks' = [callbacks EXCEPT ![id] = h]
                    /\ UNCHANGED eventListeners
               ELSE /\ eventListeners' = [eventListeners EXCEPT ![id] = h]
                    /\ UNCHANGED callbacks
          /\ nativeLog' = <<[NativeCall(fn) EXCEPT !.plugin = plugin,
                               !.method = name, !.params = params, !.cb = h]>>
          /\ last' = [base EXCEPT !.id = id]

callPluginMethodAsync ==
  /\ Idle
  /\ invoked' = <<>>
  /\ IF ~isInitialized
       THEN /\ last' = Throws("callPluginMethodAsync", "", ErrNotInit)
            /\ nativeLog' = <<>>
            /\ UNCHANGED <<callbacks, eventListeners, calls>>
       ELSE \E plugin \in CallTargets :
              Register(Outcome("callPluginMethodAsync", plugin, "id", ""),
                       "callbacks", "direct",
                       "logos_core_call_plugin_method_async", plugin,
                       "initialize", <<>>)
  /\ results' = NoResults
  /\ UNCHANGED <<options, env, nativePluginsDir, _pluginProxies,
                 LogosCore, isInitialized, isStarted,
                 eventProcessingInterval, timers, pc, crashed>>

registerEventListener ==
  /\ Idle
  /\ invoked' = <<>>
  /\ IF ~isInitialized
       THEN /\ last' = Throws("registerEventListener", "", ErrNotInit)
            /\ nativeLog' = <<>>
            /\ UNCHANGED <<callbacks, eventListeners, calls>>
       ELSE \E plugin \in CallTargets :
              Register(Outcome("registerEventListener", plugin, "id", ""),
                       "eventListeners", "direct",
                       "logos_core_register_event_listener", plugin,
                       "chatMessage", <<>>)
  /\ results' = NoResults
  /\ UNCHANGED <<options, env, nativePluginsDir, _pluginProxies,
                 LogosCore, isInitialized, isStarted,
                 eventProcessingInterval, timers, pc, crashed>>

\* ------------------------------------------------------------- reflective API
\* Argument values of a reflective call.
NumberInt == Val("number", "42", {})
NumberFrac == Val("number", "3.14", {})
IsInteger(v) == v = NumberInt
Null == Val("null", "", {})
True == Val("boolean", "true", {})
False == Val("boolean", "false", {})
StringHi == Val("string", "hi", {})
ObjectOk == Val("object", "", {<<"status", "ok">>})
FunctionVal == Val("function", "", {})
BigIntVal == Val("bigint", "7", {})

\* JSON.stringify(value) for a value that is no boolean, number or string:
\* the JSON text of an object, undefined for a function, a TypeError for a
\* BigInt.
JSONStringify(value) ==
  CASE value.tag = "object" ->
         [throws |-> FALSE, defined |-> TRUE,
          text |-> IF value.fields = {<<"status", "ok">>} THEN MsgObject
                   ELSE "{}"]
    [] value.tag = "function" ->
         [throws |-> FALSE, defined |-> FALSE, text |-> ""]
    [] OTHER -> [throws |-> TRUE, defined |-> FALSE, text |-> ""]

\* String(value).
String(value) == value.str

\* _inferTypeAndValue with every number taken for an integer.
_inferTypeAndValue_NumbersAsInt(value) ==
  IF value.tag \in {"null", "undefined"}
    THEN [type |-> "string", value |-> "", defined |-> TRUE]
  ELSE IF value.tag = "boolean"
    THEN [type |-> "bool",
          value |-> IF value.str = "true" THEN "true" ELSE "false",
          defined |-> TRUE]
  ELSE IF value.tag = "number"
    THEN [type |-> "int", value |-> String(value), defined |-> TRUE]
  ELSE IF value.tag = "string"
    THEN [type |-> "string", value |-> value.str, defined |-> TRUE]
  ELSE IF JSONStringify(value).throws
    THEN [type |-> "string", value |-> String(value), defined |-> TRUE]
  ELSE [type |-> "string", value |-> JSONStringify(value).text,
        defined |-> JSONStringify(value).defined]

\* defined: FALSE when the value is undefined (JSON.stringify of a function).
_inferTypeAndValue(value) ==
  IF value.tag \in {"null", "undefined"}
    THEN [type |-> "string", value |-> "", defined |-> TRUE]
  ELSE IF value.tag = "boolean"
    THEN [type |-> "bool",
          value |-> IF value.str = "true" THEN "true" ELSE "false",
          defined |-> TRUE]
  ELSE IF value.tag = "number"
    THEN IF IsInteger(value)
           THEN [type |-> "int", value |-> String(value), defined |-> TRUE]
           ELSE [type |-> "double", value |-> String(value), defined |-> TRUE]
  ELSE IF value.tag = "string"
    THEN [type |-> "string", value |-> value.str, defined |-> TRUE]
  ELSE IF JSONStringify(value).throws
    THEN [type |-> "string", value |-> String(value), defined |-> TRUE]
  ELSE [type |-> "string", value |-> JSONStringify(value).text,
        defined |-> JSONStringify(value).defined]

\* makeParamsJson: JSON.stringify of one {name: arg<index>, value, type}
\* entry per argument; a key whose value is undefined is left out.
makeParamsJson(args) ==
  [i \in 1..Len(args) |->
     LET inferred == _inferTypeAndValue(args[i])
     IN IF inferred.defined
          THEN [name |-> <<"arg", i - 1>>, value |-> inferred.value,
                type |-> inferred.type]
          ELSE [name |-> <<"arg", i - 1>>, type |-> inferred.type]]

ArgLists == {<<NumberInt, Val("string", "x", {})>>}

\* The argument lists of up to MaxArgs values of every kind.
ArgValues ==
  {Null, Undefined, True, False, NumberInt, NumberFrac, StringHi, ObjectOk,
   FunctionVal, BigIntVal}
AllArgLists == UNION {[1..n -> ArgValues] : n \in 0..MaxArgs}

\* plugin.method(...args) without the executor's try/catch: what
\* callPluginMethodAsync throws reaches the caller.
reflectiveCallOf_NoCatch(argLists) ==
  /\ Idle
  /\ invoked' = <<>>
  /\ \E plugin \in CallTargets, args \in argLists :
       IF ~isInitialized
         THEN /\ last' = [Throws("reflectiveCall", plugin, ErrNotInit)
                            EXCEPT !.args = args]
              /\ nativeLog' = <<>>
              /\ UNCHANGED <<callbacks, eventListeners, calls>>
         ELSE Register([Outcome("reflectiveCall", plugin, "promise:pending",
                                "") EXCEPT !.args = args],
                       "callbacks", "reflective",
                       "logos_core_call_plugin_method_async", plugin,
                       "doThing", makeParamsJson(args))
  /\ results' = NoResults
  /\ UNCHANGED <<options, env, nativePluginsDir, _pluginProxies,
                 LogosCore, isInitialized, isStarted,
                 eventProcessingInterval, timers, pc, crashed>>

\* plugin.method(...args): the promise executor calls callPluginMethodAsync
\* with a wrapper that settles the promise, and rejects with what it throws.
reflectiveCallOf(argLists) ==
  /\ Idle
  /\ invoked' = <<>>
  /\ \E plugin \in CallTargets, args \in argLists :
       IF ~isInitialized
         THEN /\ last' = [Outcome("reflectiveCall", plugin,
                                  "promise:rejected", ErrNotInit)
                            EXCEPT !.args = args]
              /\ nativeLog' = <<>>
              /\ UNCHANGED <<callbacks, eventListeners, calls>>
         ELSE Register([Outcome("reflectiveCall", plugin, "promise:pending",
                                "") EXCEPT !.args = args],
                       "callbacks", "reflective",
                       "logos_core_call_plugin_method_async", plugin,
                       "doThing", makeParamsJson(args))
  /\ results' = NoResults
  /\ UNCHANGED <<options, env, nativePluginsDir, _pluginProxies,
                 LogosCore, isInitialized, isStarted,
                 eventProcessingInterval, timers, pc, crashed>>

reflectiveCall == reflectiveCallOf(ArgLists)
\* The call made with the argument list the caller holds.
reflectiveCallArgs == reflectiveCallOf({env.args})

\* plugin.on<Event>(listener): registerEventListener with a wrapper that
\* forwards the payload to the listener.
reflectiveOn ==
  /\ Idle
  /\ invoked' = <<>>
  /\ \E plugin \in CallTargets :
       IF ~isInitialized
         THEN /\ last' = Throws("reflectiveOn", plugin, ErrNotInit)
              /\ nativeLog' = <<>>
              /\ UNCHANGED <<callbacks, eventListeners, calls>>
         ELSE Register(Outcome("reflectiveOn", plugin, "id", ""),
                       "eventListeners", "reflective",
                       "logos_core_register_event_listener", plugin,
                       "chatMessage", <<>>)
  /\ results' = NoResults
  /\ UNCHANGED <<options, env, nativePluginsDir, _pluginProxies,
                 LogosCore, isInitialized, isStarted,
                 eventProcessingInterval, timers, pc, crashed>>

\* ------------------------------------------------------------ plugin proxies
\* Properties read on the bridge: plugin names, members of the bridge
\* object and a symbol.
SymbolIterator == "Symbol(Symbol.iterator)"
BridgeProps == ProxyNames \cup BridgeMembers \cup {SymbolIterator}

\* new Proxy({}, ...): an object distinct from every proxy made before it,
\* whose handler closes over pluginName.
_createReflectivePluginProxy(pluginName) ==
  LET held == {_pluginProxies[n].instance : n \in CacheKeys}
  IN [instance |-> 1 + (CHOOSE k \in held : \A j \in held : j <= k),
      pluginName |-> pluginName]

\* _getPluginProxy looking nothing up: a new proxy at every access.
_getPluginProxy_NoCache(pluginName) ==
  LET proxy == _createReflectivePluginProxy(pluginName)
  IN /\ _pluginProxies' = [_pluginProxies EXCEPT ![pluginName] = proxy]
     /\ last' = [Outcome("get", pluginName, "proxy", "") EXCEPT !.proxy = proxy]

\* _getPluginProxy: the cached proxy, or a new one put in the cache.
_getPluginProxy(pluginName) ==
  IF _pluginProxies[pluginName] # NoProxy
    THEN /\ last' = [Outcome("get", pluginName, "proxy", "")
                       EXCEPT !.proxy = _pluginProxies[pluginName]]
         /\ UNCHANGED _pluginProxies
    ELSE LET proxy == _createReflectivePluginProxy(pluginName)
         IN /\ _pluginProxies' = [_pluginProxies EXCEPT ![pluginName] = proxy]
            /\ last' = [Outcome("get", pluginName, "proxy", "")
                          EXCEPT !.proxy = proxy]

\* The get trap without its 'prop in target' test: every string is a
\* plugin name.
bridgeGet_NoMemberCheck ==
  /\ Idle
  /\ \E prop \in BridgeProps :
       IF prop = SymbolIterator
         THEN /\ last' = Outcome("get", prop, "undefined", "")
              /\ UNCHANGED _pluginProxies
       ELSE _getPluginProxy(prop)
  /\ nativeLog' = <<>>
  /\ invoked' = <<>>
  /\ results' = NoResults
  /\ UNCHANGED <<options, env, nativePluginsDir,
                 LogosCore, isInitialized, isStarted,
                 eventProcessingInterval, timers, callbacks, eventListeners,
                 calls, pc, crashed>>

\* The get trap of the proxy the constructor returns: logos.<prop>.
bridgeGet ==
  /\ Idle
  /\ \E prop \in BridgeProps :
       IF prop \in BridgeMembers
         THEN /\ last' = Outcome("get", prop, "member", "")
              /\ UNCHANGED _pluginProxies
       ELSE IF prop = SymbolIterator
         THEN /\ last' = Outcome("get", prop, "undefined", "")
              /\ UNCHANGED _pluginProxies
       ELSE _getPluginProxy(prop)
  /\ nativeLog' = <<>>
  /\ invoked' = <<>>
  /\ results' = NoResults
  /\ UNCHANGED <<options, env, nativePluginsDir,
                 LogosCore, isInitialized, isStarted,
                 eventProcessingInterval, timers, callbacks, eventListeners,
                 calls, pc, crashed>>

\* Property names as the characters the get trap of a plugin proxy looks at.
Chars(s) ==
  CASE s = "on" -> <<"o", "n">>
    [] s = "once" -> <<"o", "n", "c", "e">>
    [] s = "online" -> <<"o", "n", "l", "i", "n", "e">>
    [] s = "onMessage" -> <<"o", "n", "M", "e", "s", "s", "a", "g", "e">>
    [] s = "onX" -> <<"o", "n", "X">>
    [] s = "send" -> <<"s", "e", "n", "d">>
    [] s = "message" -> <<"m", "e", "s", "s", "a", "g", "e">>
    [] s = "x" -> <<"x">>
    [] s = "ce" -> <<"c", "e">>
    [] s = "line" -> <<"l", "i", "n", "e">>
    [] OTHER -> <<>>
Names ==
  {"on", "once", "online", "onMessage", "onX", "send", "message", "x", "ce",
   "line"}
Text(chars) == CHOOSE s \in Names : Chars(s) = chars

ToLowerCase(c) ==
  CASE c = "M" -> "m"
    [] c = "X" -> "x"
    [] OTHER -> c
startsWith(chars, prefix) ==
  /\ Len(chars) >= Len(prefix)
  /\ SubSeq(chars, 1, Len(prefix)) = prefix
slice(chars, from) == SubSeq(chars, from + 1, Len(chars))
decapitalize(chars) ==
  IF Len(chars) > 0 THEN <<ToLowerCase(chars[1])>> \o slice(chars, 1)
  ELSE chars

\* The properties read on a plugin proxy.
ReservedProperties == {"pluginName", "toString", "then"}
Properties ==
  ReservedProperties
    \cup {SymbolIterator, "on", "once", "online", "onMessage", "onX", "send"}

\* The get trap of a plugin proxy: the rule that resolves the property and
\* the event name or verb the callable it returns will use.
ProxyGet(property) ==
  IF property \in {"pluginName", "toString"}
    THEN [route |-> property, name |-> ""]
  ELSE IF property = "then" \/ property = SymbolIterator
    THEN [route |-> "undefined", name |-> ""]
  ELSE IF startsWith(Chars(property), <<"o", "n">>) /\ Len(Chars(property)) > 2
    THEN [route |-> "event",
          name |-> Text(decapitalize(slice(Chars(property), 2)))]
  ELSE [route |-> "method", name |-> property]

\* plugin.<property>, and the call of the function it returns when it
\* returns one: with a listener for an event factory, with arguments for a
\* method.
proxyGet ==
  /\ Idle
  /\ invoked' = <<>>
  /\ \E plugin \in CallTargets, property \in Properties, args \in ArgLists :
       /\ _pluginProxies[plugin] # NoProxy
       /\ LET r == ProxyGet(property)
              base(result, error) ==
                [Outcome("proxyGet", plugin, result, error)
                   EXCEPT !.property = property, !.route = r.route]
          IN IF r.route = "event"
               THEN IF ~isInitialized
                      THEN /\ last' = base("throw", ErrNotInit)
                           /\ nativeLog' = <<>>
                           /\ UNCHANGED <<callbacks, eventListeners, calls>>
                      ELSE Register(base("id", ""), "eventListeners",
                                    "reflective",
                                    "logos_core_register_event_listener",
                                    plugin, r.name, <<>>)
             ELSE IF r.route = "method"
               THEN IF ~isInitialized
                      THEN /\ last' = base("promise:rejected", ErrNotInit)
                           /\ nativeLog' = <<>>
                           /\ UNCHANGED <<callbacks, eventListeners, calls>>
                      ELSE Register(base("promise:pending", ""), "callbacks",
                                    "reflective",
                                    "logos_core_call_plugin_method_async",
                                    plugin, r.name, makeParamsJson(args))
             ELSE /\ last' = base(IF r.route = "pluginName" THEN plugin
                                  ELSE IF r.route = "toString" THEN "function"
                                  ELSE "undefined", "")
                  /\ nativeLog' = <<>>
                  /\ UNCHANGED <<callbacks, eventListeners, calls>>
  /\ results' = NoResults
  /\ UNCHANGED <<options, env, nativePluginsDir, _pluginProxies,
                 LogosCore, isInitialized,
                 isStarted, eventProcessingInterval, timers, pc, crashed>>


\* ------------------------------------------------------------------ delivery
\* The FFI callback without its try/catch: what the user callback throws
\* reaches the native caller, which cannot unwind it.
FFICallback_Propagates(h, rc, message, throws) ==
  LET success == rc = 1
      parsedMessage == IF JSONParse(message).ok THEN JSONParse(message).value
                       ELSE Val("string", message, {})
      c == calls[h]
  IN /\ calls' = [calls EXCEPT ![h] =
          [c EXCEPT !.fired = IF c.promise = "none" THEN c.fired + 1
                              ELSE c.fired,
                    !.promise = IF c.promise = "pending"
                                  THEN IF success THEN "fulfilled" ELSE "rejected"
                                  ELSE c.promise,
                    !.value = IF c.promise = "pending" THEN parsedMessage
                              ELSE c.value]]
     /\ invoked' =
          IF c.via = "direct"
            THEN <<[cb |-> h, fn |-> "callback",
                    success |-> IF success THEN "true" ELSE "false",
                    payload |-> parsedMessage, wrapped |-> FALSE,
                    threw |-> throws]>>
          ELSE IF c.reg = "eventListeners"
            THEN <<[cb |-> h, fn |-> "listener", success |-> "none",
                    payload |-> parsedMessage, wrapped |-> ~success,
                    threw |-> throws]>>
          ELSE <<>>
     /\ crashed' = (crashed \/ throws)

\* The FFI callback taking every non-zero result code for success.
FFICallback_NonZero(h, rc, message, throws) ==
  LET success == rc # 0
      parsedMessage == IF JSONParse(message).ok THEN JSONParse(message).value
                       ELSE Val("string", message, {})
      c == calls[h]
  IN /\ calls' = [calls EXCEPT ![h] =
          [c EXCEPT !.fired = IF c.promise = "none" THEN c.fired + 1
                              ELSE c.fired,
                    !.promise = IF c.promise = "pending"
                                  THEN IF success THEN "fulfilled" ELSE "rejected"
                                  ELSE c.promise,
                    !.value = IF c.promise = "pending" THEN parsedMessage
                              ELSE c.value]]
     /\ invoked' =
          IF c.via = "direct"
            THEN <<[cb |-> h, fn |-> "callback",
                    success |-> IF success THEN "true" ELSE "false",
                    payload |-> parsedMessage, wrapped |-> FALSE,
                    threw |-> throws]>>
          ELSE IF c.reg = "eventListeners"
            THEN <<[cb |-> h, fn |-> "listener", success |-> "none",
                    payload |-> parsedMessage, wrapped |-> ~success,
                    threw |-> throws]>>
          ELSE <<>>
     /\ UNCHANGED crashed

\* The function _createFFICallback wraps around the user callback, invoked
\* by the native side with (result, message): the message is JSON-decoded
\* when it parses, the user callback is called, what it throws is caught.
FFICallback(h, rc, message, throws) ==
  LET success == rc = 1
      parsedMessage == IF JSONParse(message).ok THEN JSONParse(message).value
                       ELSE Val("string", message, {})
      c == calls[h]
  IN /\ calls' = [calls EXCEPT ![h] =
          [c EXCEPT !.fired = IF c.promise = "none" THEN c.fired + 1
                              ELSE c.fired,
                    !.promise = IF c.promise = "pending"
                                  THEN IF success THEN "fulfilled" ELSE "rejected"
                                  ELSE c.promise,
                    !.value = IF c.promise = "pending" THEN parsedMessage
                              ELSE c.value]]
     /\ invoked' =
          IF c.via = "direct"
            THEN <<[cb |-> h, fn |-> "callback",
                    success |-> IF success THEN "true" ELSE "false",
                    payload |-> parsedMessage, wrapped |-> FALSE,
                    threw |-> throws]>>
          ELSE IF c.reg = "eventListeners"
            THEN <<[cb |-> h, fn |-> "listener", success |-> "none",
                    payload |-> parsedMessage, wrapped |-> ~success,
                    threw |-> throws]>>
          ELSE <<>>
     /\ UNCHANGED crashed

\* The native side drains its event queue: it invokes none or one of the
\* callbacks it was handed. A callback no registry retains may have been
\* collected, and invoking a collected callback is fatal.
NativeDrain(base) ==
  \/ /\ last' = base
     /\ invoked' = <<>>
     /\ UNCHANGED <<calls, crashed>>
  \/ \E h \in 1..Len(calls), rc \in ResultCodes, message \in Messages :
       /\ calls[h].fired < MaxFire
       /\ \/ /\ \E throws \in BOOLEAN : FFICallback(h, rc, message, throws)
             /\ last' = [base EXCEPT !.delivered = h, !.rc = rc,
                                     !.message = message]
          \/ /\ ~Retained(h)
             /\ crashed' = TRUE
             /\ invoked' = <<>>
             /\ last' = [base EXCEPT !.result = "crash", !.delivered = h,
                                     !.rc = rc, !.message = message]
             /\ UNCHANGED calls

\* One firing of the interval scheduled by startEventProcessing.
tick ==
  /\ Idle
  /\ timers # {}
  /\ IF LogosCore # NULL
       THEN /\ nativeLog' = <<NativeCall("logos_core_process_events")>>
            /\ NativeDrain(Outcome("tick", "", "void", ""))
       ELSE /\ nativeLog' = <<>>
            /\ invoked' = <<>>
            /\ last' = Outcome("tick", "", "void", "")
            /\ UNCHANGED <<calls, crashed>>
  /\ results' = NoResults
  /\ UNCHANGED <<options, env, nativePluginsDir, _pluginProxies,
                 LogosCore, isInitialized, isStarted,
                 eventProcessingInterval, timers, callbacks, eventListeners,
                 pc>>

exec ==
  /\ Idle
  /\ IF ~isInitialized
       THEN /\ last' = Throws("exec", "", ErrNotInit)
            /\ nativeLog' = <<>>
            /\ invoked' = <<>>
            /\ UNCHANGED <<calls, crashed>>
       ELSE /\ nativeLog' = <<NativeCall("logos_core_exec")>>
            /\ NativeDrain(Outcome("exec", "", "int", ""))
  /\ results' = NoResults
  /\ UNCHANGED <<options, env, nativePluginsDir, _pluginProxies,
                 LogosCore, isInitialized, isStarted,
                 eventProcessingInterval, timers, callbacks, eventListeners,
                 pc>>

\* ------------------------------------------------------------------ the host
\* The directories of the working directory that processes other than the
\* bridge may create or remove while the bridge runs.
CwdDirs == {CwdPlugins, CwdModules}

\* One of them appears or disappears.
fsChange ==
  /\ Idle
  /\ \E d \in CwdDirs :
       /\ env' = [env EXCEPT !.exists = IF d \in @ THEN @ \ {d}
                                        ELSE @ \cup {d}]
       /\ last' = Outcome("fsChange", d, "void", "")
  /\ nativeLog' = <<>>
  /\ invoked' = <<>>
  /\ results' = NoResults
  /\ UNCHANGED <<options, nativePluginsDir, _pluginProxies, LogosCore,
                 isInitialized, isStarted, eventProcessingInterval, timers,
                 callbacks, eventListeners, calls, pc, crashed>>

\* ------------------------------------------------------------ specifications
Lifecycle ==
  \/ init
  \/ start
  \/ startEventProcessing
  \/ stopEventProcessing
  \/ cleanup
  \/ cleanup_native
  \/ cleanup_clear
  \/ cleanup_flags

Pump ==
  \/ tick
  \/ exec

Registry ==
  \/ callPluginMethodAsync
  \/ registerEventListener

\* The explicit call surface: callPluginMethodAsync and registerEventListener
\* with the caller's own callbacks, and the pump that delivers to them.
Next ==
  \/ Lifecycle
  \/ Pump
  \/ Registry

Spec == Init /\ [][Next]_vars

\* The lifecycle with calls and subscriptions registered but nothing
\* delivered.
NextLifecycle ==
  \/ Lifecycle
  \/ Registry

SpecLifecycle == Init /\ [][NextLifecycle]_vars

\* The plugin queries and operations, which read the lifecycle flags and
\* change nothing of the bridge, over every lifecycle state.
NextPlugins ==
  \/ Lifecycle
  \/ getLoadedPlugins
  \/ getKnownPlugins
  \/ processPlugin
  \/ loadPlugin
  \/ unloadPlugin
  \/ processAndLoadPlugin
  \/ processAndLoadPlugins

SpecPlugins == Init /\ [][NextPlugins]_vars

PluginOps ==
  \/ getLoadedPlugins
  \/ getKnownPlugins
  \/ processPlugin
  \/ loadPlugin
  \/ unloadPlugin
  \/ processAndLoadPlugin
  \/ processAndLoadPlugins

\* A bridge constructed with autoInit: false on which init() is not called:
\* every other public method, and the pump's tick.
InitManual ==
  \E platform \in Platforms, libPath \in {NULL, CustomLib},
     pluginsDir \in {NULL, CustomPlugins} :
    Constructed([libPath |-> libPath, pluginsDir |-> pluginsDir,
                 autoInit |-> FALSE],
                [platform |-> platform,
                 exists |-> {SdkLib, CwdPlugins, CustomLib, CustomPlugins}])

NextBeforeInit ==
  \/ start
  \/ startEventProcessing
  \/ stopEventProcessing
  \/ cleanup
  \/ cleanup_native
  \/ cleanup_clear
  \/ cleanup_flags
  \/ Registry
  \/ PluginOps
  \/ Pump

SpecBeforeInit == InitManual /\ [][NextBeforeInit]_vars

\* The reflective call surface: plugin.method(...) and plugin.on<Event>(...).
NextReflective ==
  \/ Lifecycle
  \/ Pump
  \/ reflectiveCall
  \/ reflectiveOn

SpecReflective == Init /\ [][NextReflective]_vars

\* The life of a reflective call's promise: the call, the pump that
\* delivers its reply, and the teardown that discards its registration.
NextPromise ==
  \/ init
  \/ startEventProcessing
  \/ cleanup
  \/ cleanup_native
  \/ cleanup_clear
  \/ cleanup_flags
  \/ reflectiveCall
  \/ tick

SpecPromise == Init /\ [][NextPromise]_vars

\* The reflective surface as properties: logos.<name> and, on the proxy it
\* returns, plugin.<property>, over the life of the bridge.
NextProxy ==
  \/ init
  \/ cleanup
  \/ cleanup_native
  \/ cleanup_clear
  \/ cleanup_flags
  \/ bridgeGet
  \/ proxyGet

SpecProxy == Init /\ [][NextProxy]_vars

\* The life of a subscription made with plugin.on<Event>(listener): the
\* subscription, the pump that delivers its events, and the teardown.
NextListener ==
  \/ init
  \/ startEventProcessing
  \/ cleanup
  \/ cleanup_native
  \/ cleanup_clear
  \/ cleanup_flags
  \/ reflectiveOn
  \/ tick

SpecListener == Init /\ [][NextListener]_vars

\* Reflective calls with one argument list, any of AllArgLists, held by the
\* caller from the start, over the life of the bridge.
InitParams ==
  \E args \in AllArgLists, auto \in BOOLEAN :
    Constructed([libPath |-> NULL, pluginsDir |-> NULL, autoInit |-> auto],
                [platform |-> DefaultEnv.platform,
                 exists |-> DefaultEnv.exists, args |-> args])

NextParams ==
  \/ init
  \/ cleanup
  \/ cleanup_native
  \/ cleanup_clear
  \/ cleanup_flags
  \/ reflectiveCallArgs

SpecParams == InitParams /\ [][NextParams]_vars

\* A subscription with the caller's own handler and the two ways the native
\* event queue is drained: the pump's tick and exec().
NextDrain ==
  \/ startEventProcessing
  \/ registerEventListener
  \/ tick
  \/ exec

SpecDrain == Init /\ [][NextDrain]_vars

\* Calls and subscriptions with the caller's own handlers, delivered to
\* while exec() runs.
NextHandlers ==
  \/ callPluginMethodAsync
  \/ registerEventListener
  \/ exec

SpecHandlers == Init /\ [][NextHandlers]_vars

\* init() on bridges constructed with autoInit: false, with and without a
\* configured libPath, on hosts where any of the library paths and the
\* default plugins directory may be missing.
LibPaths == {CustomLib, SdkLib, LegacyLib}

InitLibrary ==
  \E libPath \in {NULL, CustomLib}, present \in SUBSET LibPaths,
     plugins \in SUBSET {CwdPlugins} :
    Constructed([libPath |-> libPath, pluginsDir |-> NULL, autoInit |-> FALSE],
                [platform |-> "linux", exists |-> present \cup plugins])

NextLibrary ==
  \/ init
  \/ start
  \/ cleanup
  \/ cleanup_native
  \/ cleanup_clear
  \/ cleanup_flags

SpecLibrary == InitLibrary /\ [][NextLibrary]_vars

\* processPlugin on a host whose working directory changes between init()
\* and the call.
NextDirs ==
  \/ init
  \/ cleanup
  \/ cleanup_native
  \/ cleanup_clear
  \/ cleanup_flags
  \/ fsChange
  \/ processPlugin

SpecDirs == Init /\ [][NextDirs]_vars

\* The pump started and stopped, its ticks, and a subscription for the
\* ticks to deliver to.
NextPump ==
  \/ startEventProcessing
  \/ stopEventProcessing
  \/ tick
  \/ registerEventListener
  \/ cleanup
  \/ cleanup_native
  \/ cleanup_clear
  \/ cleanup_flags

SpecPump == Init /\ [][NextPump]_vars

\* A tick at which the native side delivers the reply it has queued for
\* callback h.
tickDelivers(h) ==
  /\ tick
  /\ last'.delivered = h
  /\ last'.result # "crash"

\* Reflective method calls on a bridge whose pump, once started, is neither
\* stopped nor cleaned up. The interval keeps firing, and the native side
\* hands over every reply it has queued at some tick.
NextLive ==
  \/ startEventProcessing
  \/ reflectiveCall
  \/ tick

SpecLive ==
  /\ Init
  /\ [][NextLive]_vars
  /\ \A h \in 1..MaxCalls : WF_vars(tickDelivers(h))

\* -------------------------------------------------------------------- claims
Range(f) == {f[i] : i \in DOMAIN f}
Calls(fn) == {k \in 1..Len(nativeLog) : nativeLog[k].fn = fn}
RegistriesEmpty ==
  \A i \in CallIds : callbacks[i] = 0 /\ eventListeners[i] = 0

\* A callback whose registry entry was dropped by cleanup(): no registry
\* holds it and no later registration under the same id replaced it.
DiscardedByCleanup(h) ==
  /\ ~Retained(h)
  /\ ~\E g \in (h + 1)..Len(calls) :
        calls[g].id = calls[h].id /\ calls[g].reg = calls[h].reg

\* C1: the handler passed to callPluginMethodAsync is invoked at most once,
\* whatever the native side delivers: a second delivery for the same call
\* does not invoke it.
C1_HandlerFiresOnce ==
  \A h \in 1..Len(calls) :
    (calls[h].reg = "callbacks" /\ calls[h].via = "direct")
      => calls[h].fired <= 1

\* C2: once cleanup() has discarded a registration, a native delivery for it
\* invokes no user handler.
C2_NoHandlerAfterCleanup ==
  \A k \in 1..Len(invoked) : ~DiscardedByCleanup(invoked[k].cb)

\* The operations C3 names, as the model records them.
NativeOps ==
  {"getLoadedPlugins", "getKnownPlugins", "processPlugin", "loadPlugin",
   "unloadPlugin", "callPluginMethodAsync", "registerEventListener", "start",
   "exec", "tick"}

\* C3: on a bridge that was torn down by cleanup() and not initialized
\* again, each of these operations fails with a not-initialized error and
\* calls no native entry point.
C3_NoNativeCallAfterCleanup ==
  (pc = "idle" /\ LogosCore # NULL /\ ~isInitialized /\ last.op \in NativeOps)
    => /\ nativeLog = <<>>
       /\ last.result = "throw"
       /\ last.error \in {ErrNotInit, ErrInitBeforeStart}

\* The methods that check isInitialized before anything else.
GuardedOps ==
  {"start", "getLoadedPlugins", "getKnownPlugins", "processPlugin",
   "loadPlugin", "unloadPlugin", "processAndLoadPlugin",
   "callPluginMethodAsync", "registerEventListener", "exec"}
PublicOpsButInit ==
  GuardedOps \cup {"processAndLoadPlugins", "startEventProcessing",
                   "stopEventProcessing", "cleanup"}

C5_InitTwiceThrows ==
  [][(isInitialized /\ last'.op = "init")
       => /\ last'.result = "throw"
          /\ last'.error = ErrAlreadyInit
          /\ nativeLog' = <<>>
          /\ UNCHANGED bridge]_vars

\* C5 witness: the second init() on a bridge that the constructor
\* initialized, with a call registered, the core started and the pump
\* running.
C5_Witness ==
  /\ options.autoInit
  /\ last.op = "init"
  /\ last.error = ErrAlreadyInit
  /\ isStarted
  /\ eventProcessingInterval # 0
  /\ Len(calls) > 0
  /\ ~RegistriesEmpty

\* C6 as stated: every cleanup() issues the native cleanup call.
C6_CleanupAlwaysCallsNative ==
  (last.op = "cleanup" /\ pc \in {"cleanup_flags", "idle"})
    => Calls("logos_core_cleanup") # {}

\* What cleanup() has done by the time it resets the flags: the pump is
\* stopped, the registries are empty, and the native cleanup call was
\* issued, once, provided a library was loaded.
CleanupDone ==
  /\ eventProcessingInterval = 0
  /\ timers = {}
  /\ RegistriesEmpty
  /\ nativeLog = IF LogosCore # NULL
                   THEN <<NativeCall("logos_core_cleanup")>> ELSE <<>>

\* C6 as amended: cleanup(), from any state, stops the pump first, issues
\* the native cleanup call when a library was loaded (none on a bridge that
\* never loaded one), and empties both registries, all before it resets the
\* flags; when it returns the pump is not running, the registries are empty
\* and the bridge is neither initialized nor started.
C6_CleanupTearsDown ==
  /\ [](pc # "idle" => (eventProcessingInterval = 0 /\ timers = {}))
  /\ [](pc = "cleanup_flags" => CleanupDone)
  /\ []((pc = "idle" /\ last.op = "cleanup")
          => (CleanupDone /\ ~isInitialized /\ ~isStarted))
  /\ [][((isInitialized /\ ~isInitialized') \/ (isStarted /\ ~isStarted'))
          => (pc = "cleanup_flags" /\ CleanupDone)]_vars

\* C6 witness: cleanup() of a started bridge that holds a registration,
\* about to reset the flags.
C6_Witness ==
  /\ pc = "cleanup_flags"
  /\ isInitialized
  /\ isStarted
  /\ Len(calls) > 0
  /\ Calls("logos_core_cleanup") # {}

\* The process calls of the batch for a name that returned a truthy value.
ProcessedOk(n) ==
  {k \in Calls("logos_core_process_plugin") :
     nativeLog[k].plugin = n /\ Truthy(nativeLog[k].ret)}
LoadsOf(n) ==
  {k \in Calls("logos_core_load_plugin") : nativeLog[k].plugin = n}
Occurrences(list, n) == {i \in 1..Len(list) : list[i] = n}
LastOccurrence(list, n) ==
  CHOOSE i \in Occurrences(list, n) : \A j \in Occurrences(list, n) : j <= i

\* C7: processAndLoadPlugins issues every process call before any load call;
\* a load call is issued for a name only if a process call for that name
\* returned true; the record of a name reports the process result of its
\* last position; a name recorded as not processed has no loaded field and
\* no load call, and a name recorded as processed gets a load call at each
\* of its positions, the last of which decides its loaded field.
C7_BatchIsTwoPhase ==
  last.op = "processAndLoadPlugins"
    => /\ \A k \in Calls("logos_core_process_plugin"),
            m \in Calls("logos_core_load_plugin") : k < m
       /\ \A m \in Calls("logos_core_load_plugin") :
            ProcessedOk(nativeLog[m].plugin) # {}
       /\ \A n \in Range(last.list) :
            /\ ProcessedOk(n) = {} => results[n].processed = "false"
            /\ isInitialized
                 => results[n].processed
                      = Bool(nativeLog[LastOccurrence(last.list, n)].ret
                               \notin {NULL, ""})
            /\ results[n].processed = "false"
                 => results[n].loaded = "unset" /\ LoadsOf(n) = {}
            /\ results[n].processed = "true"
                 => /\ Cardinality(LoadsOf(n))
                       = Cardinality(Occurrences(last.list, n))
                    /\ \E m \in LoadsOf(n) :
                         /\ \A j \in LoadsOf(n) : j <= m
                         /\ results[n].loaded = Bool(nativeLog[m].code = 1)

\* C7 witness: of two names the first fails to process and the second is
\* processed and loaded.
C7_Witness ==
  /\ last.op = "processAndLoadPlugins"
  /\ last.list = <<"chat", "waku">>
  /\ results["chat"].processed = "false"
  /\ results["waku"].loaded = "true"
  /\ Len(nativeLog) = 3

\* C8: processAndLoadPlugins never throws; its map has a record for exactly
\* the names of the list; on an initialized bridge every position of the list
\* gets its process call whatever the other names did, and the record of a
\* name reports the process result of its last position.
C8_BatchNeverAborts ==
  last.op = "processAndLoadPlugins"
    => /\ last.result = "map"
       /\ \A n \in PluginNames : results[n].present <=> n \in Range(last.list)
       /\ isInitialized
            => /\ Cardinality(Calls("logos_core_process_plugin"))
                  = Len(last.list)
               /\ \A n \in Range(last.list) :
                    /\ \E k \in Calls("logos_core_process_plugin") :
                         nativeLog[k].plugin = n
                    /\ results[n].processed = "true" => LoadsOf(n) # {}
       /\ ~isInitialized
            => \A n \in Range(last.list) :
                 results[n].processed = "false" /\ results[n].error = ErrNotInit

\* C8 witness: the first name fails to process and the second, processed,
\* fails to load; both have their record.
C8_Witness ==
  /\ last.op = "processAndLoadPlugins"
  /\ last.list = <<"waku", "chat">>
  /\ results["waku"].processed = "false"
  /\ results["chat"].processed = "true"
  /\ results["chat"].loaded = "false"

\* C9 as stated: processAndLoadPlugin returns true after a successful process
\* and load, and in every other case throws an error carrying the name.
C9_FailureCarriesName ==
  last.op = "processAndLoadPlugin"
    => \/ last.result = "true"
       \/ last.result = "throw" /\ last.errPlugin = last.arg

\* C9 as amended: on an initialized bridge processAndLoadPlugin calls process
\* first and load only after a true process result, returns true only when
\* both succeeded and otherwise throws an error carrying the plugin name with
\* no load after a failed process; on a bridge that is not initialized it
\* throws the not-initialized error, which names no plugin, and calls
\* nothing.
C9_ProcessThenLoad ==
  last.op = "processAndLoadPlugin"
    => IF ~isInitialized
         THEN /\ last.result = "throw"
              /\ last.error = ErrNotInit
              /\ nativeLog = <<>>
         ELSE /\ Len(nativeLog) \in {1, 2}
              /\ nativeLog[1].fn = "logos_core_process_plugin"
              /\ nativeLog[1].plugin = last.arg
              /\ Len(nativeLog) = 2
                   <=> nativeLog[1].ret \notin {NULL, ""}
              /\ Len(nativeLog) = 2
                   => /\ nativeLog[2].fn = "logos_core_load_plugin"
                      /\ nativeLog[2].plugin = last.arg
              /\ last.result = "true"
                   <=> (Len(nativeLog) = 2 /\ nativeLog[2].code = 1)
              /\ last.result # "true"
                   => /\ last.result = "throw"
                      /\ last.errPlugin = last.arg
                      /\ last.error = IF Len(nativeLog) = 1 THEN ErrProcess
                                      ELSE ErrLoad

\* C9 witness: process succeeded and load returned a code other than 1.
C9_Witness ==
  /\ last.op = "processAndLoadPlugin"
  /\ last.error = ErrLoad
  /\ Len(nativeLog) = 2
  /\ nativeLog[2].code = 2

\* What a handler is given for a delivered message text.
Delivered(message) ==
  IF message = MsgObject THEN Val("object", "", {<<"status", "ok">>})
  ELSE Val("string", message, {})

\* C10 as stated, its "never settles before a delivery": the promise a
\* reflective call returns is pending when the call returns.
C10_PendingUntilDelivery ==
  last.op = "reflectiveCall" => last.result = "promise:pending"

\* C10 as amended: the promise of a reflective call made on an initialized
\* bridge is pending until a delivery for its call, is settled by that
\* delivery (fulfilled with the decoded payload when the result code is 1,
\* rejected with it otherwise) and never changes afterwards; a reflective
\* call made on a bridge that is not initialized returns a promise already
\* rejected with the not-initialized error.
C10_PromiseSettledByDelivery ==
  /\ []((last.op = "reflectiveCall" /\ pc = "idle")
          => IF isInitialized
               THEN /\ last.result = "promise:pending"
                    /\ calls[Len(calls)].promise = "pending"
               ELSE /\ last.result = "promise:rejected"
                    /\ last.error = ErrNotInit
                    /\ nativeLog = <<>>)
  /\ [][\A h \in 1..Len(calls) :
          calls[h].promise # "none"
            => /\ calls[h].promise # "pending" => calls'[h] = calls[h]
               /\ (calls[h].promise = "pending"
                   /\ last'.delivered = h /\ last'.result # "crash")
                    => /\ calls'[h].promise = IF last'.rc = 1 THEN "fulfilled"
                                              ELSE "rejected"
                       /\ calls'[h].value = Delivered(last'.message)
               /\ (calls[h].promise = "pending"
                   /\ ~(last'.delivered = h /\ last'.result # "crash"))
                    => calls'[h] = calls[h]]_vars

\* C10 witness: a promise fulfilled with the decoded object stays so under
\* a later failure delivery for the same call.
C10_Witness ==
  \E h \in 1..Len(calls) :
    /\ calls[h].promise = "fulfilled"
    /\ calls[h].value = Val("object", "", {<<"status", "ok">>})
    /\ last.delivered = h
    /\ last.rc = 0
    /\ last.result # "crash"

\* A property of the shape on<Capitalized>: the prefix "on" followed by a
\* remainder that begins with a capital letter.
OnCapitalized(property) ==
  LET cs == Chars(property)
  IN /\ startsWith(cs, <<"o", "n">>)
     /\ Len(cs) > 2
     /\ ToLowerCase(cs[3]) # cs[3]

\* C11: on a plugin proxy the reserved properties resolve to fixed values; a
\* string property of the shape on<Capitalized> is an event-subscription
\* factory that registers under the decapitalized remainder; every other
\* string property (on, once, online, send) is a method whose verb is the
\* property name.
C11_EventFactoryOnlyForOnCapitalized ==
  last.op = "proxyGet"
    => IF last.property \in {"pluginName", "toString"}
         THEN last.route = last.property /\ nativeLog = <<>>
       ELSE IF last.property \in {"then", SymbolIterator}
         THEN last.route = "undefined" /\ nativeLog = <<>>
       ELSE IF OnCapitalized(last.property)
         THEN /\ last.route = "event"
              /\ \A k \in 1..Len(nativeLog) :
                   /\ nativeLog[k].fn = "logos_core_register_event_listener"
                   /\ Chars(nativeLog[k].method)
                        = decapitalize(slice(Chars(last.property), 2))
       ELSE /\ last.route = "method"
            /\ \A k \in 1..Len(nativeLog) :
                 /\ nativeLog[k].fn = "logos_core_call_plugin_method_async"
                 /\ nativeLog[k].method = last.property

\* C12: every delivery for a subscription made with plugin.on<Event> invokes
\* the listener once, with the decoded payload when the result code is 1 and
\* with the payload wrapped as {error: true, message} for any other code.
C12_ListenerGetsPayloadOrError ==
  \A h \in 1..Len(calls) :
    (/\ last.delivered = h
     /\ calls[h].reg = "eventListeners"
     /\ calls[h].via = "reflective"
     /\ (Retained(h) \/ last.result # "crash"))
      => /\ last.result # "crash"
         /\ Len(invoked) = 1
         /\ invoked[1].cb = h
         /\ invoked[1].fn = "listener"
         /\ invoked[1].payload = Delivered(last.message)
         /\ invoked[1].wrapped <=> last.rc # 1

\* C12 witness: a failure delivery with a JSON message reached the listener
\* as an error object around the decoded message, for the second time.
C12_Witness ==
  \E h \in 1..Len(calls) :
    /\ last.delivered = h
    /\ calls[h].reg = "eventListeners"
    /\ calls[h].via = "reflective"
    /\ calls[h].fired = 2
    /\ last.rc = 2
    /\ last.message = MsgObject
    /\ Len(invoked) = 1
    /\ invoked[1].wrapped

\* The payload of the reflective call the last operation issued.
Payload == nativeLog[1].params
Issued == last.op = "reflectiveCall" /\ nativeLog # <<>>
Primitive(v) ==
  v.tag \in {"null", "undefined", "boolean", "number", "string"}

\* The entry the claim gives a boolean, a number, a string, null or
\* undefined.
PrimitiveEntry(v, entry) ==
  /\ "value" \in DOMAIN entry
  /\ v.tag = "boolean"
       => entry.type = "bool" /\ entry.value = (IF v = True THEN "true"
                                                ELSE "false")
  /\ v = NumberInt => entry.type = "int" /\ entry.value = "42"
  /\ v = NumberFrac => entry.type = "double" /\ entry.value = "3.14"
  /\ v.tag = "string" => entry.type = "string" /\ entry.value = v.str
  /\ v.tag \in {"null", "undefined"}
       => entry.type = "string" /\ entry.value = ""

\* C13 as stated: one entry per argument, in order, named arg<i>, typed as
\* the claim lists, anything that is no boolean, number, string, null or
\* undefined being a 'string' whose value is its JSON text.
C13_OtherValuesCarryJsonText ==
  Issued
    => /\ Len(Payload) = Len(last.args)
       /\ \A i \in 1..Len(last.args) :
            /\ Payload[i].name = <<"arg", i - 1>>
            /\ Primitive(last.args[i]) => PrimitiveEntry(last.args[i], Payload[i])
            /\ ~Primitive(last.args[i])
                 => /\ Payload[i].type = "string"
                    /\ "value" \in DOMAIN Payload[i]
                    /\ last.args[i] = ObjectOk => Payload[i].value = MsgObject

\* C13 as amended: the same for booleans, numbers, strings, null and
\* undefined; any other value is a 'string' whose value is its JSON text
\* when it has one (an object), its String() text when JSON.stringify throws
\* (a BigInt), and is left out of the entry when JSON.stringify yields
\* undefined (a function).
C13_ParamsEncodeArguments ==
  Issued
    => /\ Len(Payload) = Len(last.args)
       /\ \A i \in 1..Len(last.args) :
            /\ Payload[i].name = <<"arg", i - 1>>
            /\ Primitive(last.args[i]) => PrimitiveEntry(last.args[i], Payload[i])
            /\ ~Primitive(last.args[i]) => Payload[i].type = "string"
            /\ last.args[i] = ObjectOk
                 => "value" \in DOMAIN Payload[i] /\ Payload[i].value = MsgObject
            /\ last.args[i] = BigIntVal
                 => "value" \in DOMAIN Payload[i] /\ Payload[i].value = "7"
            /\ last.args[i] = FunctionVal => "value" \notin DOMAIN Payload[i]

\* C13 witness: a call with a non-integral number and then an object.
C13_Witness ==
  /\ Issued
  /\ last.args = <<NumberFrac, ObjectOk>>
  /\ Payload[1].type = "double"
  /\ Payload[2].value = MsgObject

\* C14 as stated: every access to a name on the bridge returns the plugin
\* proxy bound to that name.
C14_EveryNameGetsItsProxy ==
  (last.op = "get" /\ last.arg # SymbolIterator)
    => last.result = "proxy" /\ last.proxy.pluginName = last.arg

\* C14 as amended: for every name that is not a member of the bridge object,
\* every access returns the proxy cached for that name, bound to that name;
\* a cached proxy is never replaced, whatever the bridge does (cleanup() and
\* init() included); proxies of different names are different instances;
\* a name that is a member of the bridge object returns that member.
C14_ProxyIsCachedPerName ==
  /\ []((last.op = "get" /\ last.arg \in ProxyNames)
          => /\ last.result = "proxy"
             /\ last.proxy.instance # 0
             /\ last.proxy.pluginName = last.arg
             /\ _pluginProxies[last.arg] = last.proxy)
  /\ []((last.op = "get" /\ last.arg \in BridgeMembers)
          => last.result = "member")
  /\ [](\A n, m \in ProxyNames :
          (n # m /\ _pluginProxies[n] # NoProxy)
            => _pluginProxies[n].instance # _pluginProxies[m].instance)
  /\ [][\A n \in ProxyNames :
          _pluginProxies[n] # NoProxy => _pluginProxies'[n] = _pluginProxies[n]]_vars

\* C14 witness: after cleanup() of an auto-initialized bridge, a second
\* access to the name whose proxy was made first returns that proxy.
C14_Witness ==
  /\ options.autoInit
  /\ ~isInitialized
  /\ pc = "idle"
  /\ last.op = "get"
  /\ last.arg = "waku"
  /\ last.proxy = [instance |-> 1, pluginName |-> "waku"]
  /\ _pluginProxies["chat"] = [instance |-> 2, pluginName |-> "chat"]

\* C15: the host loop holds at most one pump timer, the one
\* eventProcessingInterval refers to; startEventProcessing() while the pump
\* is running throws the already-running error and leaves that timer as it
\* is.
C15_OnePumpTimer ==
  /\ [](Cardinality(timers) <= 1)
  /\ [](timers = IF eventProcessingInterval = 0 THEN {}
                 ELSE {eventProcessingInterval})
  /\ [][(eventProcessingInterval # 0 /\ pc = "idle"
         /\ last'.op = "startEventProcessing")
          => /\ last'.result = "throw"
             /\ last'.error = ErrPumpRunning
             /\ UNCHANGED <<timers, eventProcessingInterval>>]_vars

\* C15 witness: startEventProcessing() failed on a running pump.
C15_Witness ==
  /\ last.op = "startEventProcessing"
  /\ last.error = ErrPumpRunning
  /\ timers = {eventProcessingInterval}
  /\ eventProcessingInterval # 0

DrainOps == {"tick", "exec"}

bridgeState == <<LogosCore, isInitialized, isStarted, eventProcessingInterval,
                 timers, callbacks, eventListeners, _pluginProxies>>

\* A step in which the native side called an FFI callback that still exists.
Dispatch == last'.delivered # 0 /\ last'.result # "crash"

\* C17: an exception thrown by a user handler during a delivery is caught at
\* the dispatch boundary: the operation that drained the queue returns
\* normally, the process does not die, the bridge state is what it was, and
\* every delivery dispatched, after a throw as before it, invokes the
\* handler of the callback it is addressed to.
C17_HandlerThrowIsContained ==
  [][/\ (invoked' # <<>> /\ invoked'[1].threw)
          => /\ ~crashed'
             /\ last'.result = "int"
             /\ UNCHANGED bridgeState
     /\ (invoked # <<>> /\ invoked[1].threw)
          => /\ ~crashed
             /\ Dispatch => /\ Len(invoked') = 1
                            /\ invoked'[1].cb = last'.delivered
                            /\ calls'[last'.delivered].fired
                                 = calls[last'.delivered].fired + 1
     /\ Dispatch => /\ Len(invoked') = 1
                    /\ invoked'[1].cb = last'.delivered]_vars

\* C17 witness: the handler of a subscription threw on its second delivery,
\* and exec() returned.
C17_Witness ==
  /\ last.op = "exec"
  /\ last.result = "int"
  /\ Len(invoked) = 1
  /\ invoked[1].threw
  /\ calls[invoked[1].cb].reg = "eventListeners"
  /\ calls[invoked[1].cb].fired = 2

\* C18: for every delivered message text the handler is invoked once, with
\* the JSON-decoded value when the text is valid JSON and the raw text
\* unchanged when it is not, and with the success flag of the delivery
\* (result code 1); a text that is not JSON makes nothing throw.
C18_HandlerGetsDecodedOrRawText ==
  (last.delivered # 0 /\ last.result # "crash")
    => /\ last.result = "int"
       /\ ~crashed
       /\ Len(invoked) = 1
       /\ invoked[1].cb = last.delivered
       /\ invoked[1].payload = Delivered(last.message)
       /\ invoked[1].payload.tag = IF JSONParse(last.message).ok THEN "object"
                                   ELSE "string"
       /\ invoked[1].success = IF last.rc = 1 THEN "true" ELSE "false"

\* C18 witness: a text that is not JSON was delivered with a failure code
\* and the callback of a call received it as it was.
C18_Witness ==
  /\ last.op = "exec"
  /\ last.message = MsgPlain
  /\ last.rc = 0
  /\ Len(invoked) = 1
  /\ invoked[1].payload = Val("string", MsgPlain, {})
  /\ invoked[1].success = "false"
  /\ calls[invoked[1].cb].reg = "callbacks"

\* The library paths of the host in the order the claim gives them: the
\* configured path when there is one, the SDK's own, the legacy build tree.
Attempted ==
  (IF options.libPath # NULL THEN <<options.libPath>> ELSE <<>>)
    \o <<SdkLib, LegacyLib>>

FirstExisting(paths) ==
  IF \E k \in 1..Len(paths) : paths[k] \in env.exists
    THEN paths[CHOOSE k \in 1..Len(paths) :
                 /\ paths[k] \in env.exists
                 /\ \A j \in 1..(k - 1) : paths[j] \notin env.exists]
    ELSE ""

\* init() ran its body: the bridge was not initialized when it was called.
InitRan == last.op = "init" /\ last.error # ErrAlreadyInit /\ pc = "idle"

\* C19 as stated: init loads the first path that exists among the configured
\* path, the SDK-local path and the legacy build-tree path, and loads nothing
\* only when none of them exists.
C19_FirstExistingPathWins ==
  InitRan => last.arg = FirstExisting(Attempted)

\* C19 as amended: a configured libPath is the only path tried, and init
\* fails when it does not exist; with no libPath configured the SDK-local
\* path is loaded when it exists, the legacy build-tree path otherwise, and
\* init fails when neither exists.
C19_ConfiguredPathOrFallbacks ==
  InitRan =>
    /\ last.arg = IF options.libPath # NULL
                    THEN FirstExisting(<<options.libPath>>)
                    ELSE FirstExisting(<<SdkLib, LegacyLib>>)
    /\ last.arg = "" => /\ last.result = "throw"
                        /\ last.error = ErrInitFailed
                        /\ ~isInitialized
                        /\ nativeLog = <<>>
    /\ last.arg # "" => /\ LogosCore = LIB
                        /\ nativeLog # <<>>
                        /\ nativeLog[1].fn = "logos_core_init"
    /\ last.result = "true" => last.arg # ""

\* C19 witness: the configured libPath does not exist, the SDK-local library
\* does, and init failed without loading anything.
C19_Witness ==
  /\ InitRan
  /\ options.libPath = CustomLib
  /\ CustomLib \notin env.exists
  /\ SdkLib \in env.exists
  /\ last.result = "throw"
  /\ last.arg = ""
  /\ LogosCore = NULL

\* C20: the pending-call registry holds only outstanding calls: the entry
\* callPluginMethodAsync adds is removed when the call's handler fires, so
\* no call whose handler has fired is still in the registry.
C20_RegistryHoldsOnlyOutstandingCalls ==
  \A id \in CallIds :
    callbacks[id] # 0 => calls[callbacks[id]].fired = 0

\* A step in which callPluginMethodAsync or registerEventListener returned
\* a CallId.
Registered ==
  /\ last'.op \in {"callPluginMethodAsync", "registerEventListener"}
  /\ last'.result = "id"
  /\ Len(calls') = Len(calls) + 1

\* C21: the CallId a registration returns is not the id of a call that is
\* still pending (in the registry, its handler not fired yet) nor of a
\* subscription that is still held, so no registration overwrites the
\* registry entry of another one.
C21_NewIdIsFresh ==
  [][Registered
       => /\ callbacks[last'.id] # 0 => calls[callbacks[last'.id]].fired > 0
          /\ eventListeners[last'.id] = 0]_vars

\* C22: the plugins directory is resolved once, at init: the directory of
\* the path processPlugin hands to the native process call is the one init
\* gave to logos_core_set_plugins_dir, whatever has become of <cwd>/plugins
\* and <cwd>/modules since.
C22_PluginsDirFixedAtInit ==
  \A k \in Calls("logos_core_process_plugin") :
    /\ nativeLog[k].dir = nativePluginsDir
    /\ nativeLog[k].ext = _getLibraryExtension(env.platform)

\* C23: start() succeeds only on an initialized bridge that is not started;
\* on a started bridge it throws without calling logos_core_start, so the
\* native start is issued at most once between an init() and the next
\* cleanup() (only cleanup() resets the started flag), and the bridge is
\* never started while it is not initialized.
C23_StartOncePerCycle ==
  /\ [](isStarted => isInitialized)
  /\ [][/\ (last'.op = "start" /\ last'.result = "true")
             => /\ isInitialized /\ ~isStarted
                /\ isStarted'
                /\ nativeLog' = <<NativeCall("logos_core_start")>>
        /\ (last'.op = "start" /\ isStarted)
             => /\ last'.result = "throw"
                /\ last'.error = ErrAlreadyStarted
                /\ nativeLog' = <<>>
                /\ UNCHANGED bridge
        /\ (\E k \in 1..Len(nativeLog') :
              nativeLog'[k].fn = "logos_core_start")
             => /\ last'.op = "start"
                /\ isInitialized /\ ~isStarted
        /\ (isStarted /\ ~isStarted') => last'.op = "cleanup"]_vars

\* C23 witness: a second start() on a started bridge that an explicit
\* init() initialized.
C23_Witness ==
  /\ ~options.autoInit
  /\ last.op = "start"
  /\ last.error = ErrAlreadyStarted
  /\ nativeLog = <<>>
  /\ isStarted
  /\ isInitialized

\* C24: stopEventProcessing() on a running pump cancels it and returns
\* true; while the pump is stopped no tick runs and nothing calls
\* logos_core_process_events; on a pump that is not running it returns
\* false and changes nothing; startEventProcessing() on a stopped pump
\* starts it again.
C24_StopCancelsPump ==
  [][/\ (last'.op = "stopEventProcessing" /\ eventProcessingInterval # 0)
          => /\ last'.result = "true"
             /\ eventProcessingInterval' = 0
             /\ timers' = {}
     /\ (last'.op = "stopEventProcessing" /\ eventProcessingInterval = 0)
          => /\ last'.result = "false"
             /\ UNCHANGED bridge
     /\ (eventProcessingInterval = 0 /\ pc = "idle")
          => /\ last'.op # "tick"
             /\ \A k \in 1..Len(nativeLog') :
                  nativeLog'[k].fn # "logos_core_process_events"
     /\ (last'.op = "startEventProcessing" /\ eventProcessingInterval = 0)
          => /\ last'.result = "true"
             /\ eventProcessingInterval' # 0
             /\ timers' = {eventProcessingInterval'}]_vars

\* C24 witness: stopEventProcessing() returned true on a bridge whose
\* library is loaded, and no timer is left.
C24_Witness ==
  /\ last.op = "stopEventProcessing"
  /\ last.result = "true"
  /\ LogosCore # NULL
  /\ eventProcessingInterval = 0
  /\ timers = {}

\* The state of the promise of the h-th callback created ("none": it has
\* none, or no such callback yet).
PromiseOf(h) == IF h <= Len(calls) THEN calls[h].promise ELSE "none"

\* C25: on an initialized bridge whose pump is running and is never stopped
\* or cleaned up, with ticks scheduled fairly, the promise of every
\* reflective method call whose reply the native side has queued is
\* eventually settled.
C25_PendingCallIsSettled ==
  \A h \in 1..MaxCalls :
    (PromiseOf(h) = "pending" /\ timers # {})
      ~> (PromiseOf(h) \in {"fulfilled", "rejected"})

\* C26: a reflective method call made while the bridge is not initialized
\* (before init() or after cleanup()) does not throw: it returns a promise
\* rejected with the not-initialized error, calls nothing native and leaves
\* the registries, and the rest of the bridge, as they were.
C26_ReflectiveCallRejectsBeforeInit ==
  [][(last'.op = "reflectiveCall" /\ ~isInitialized)
       => /\ last'.result = "promise:rejected"
          /\ last'.error = ErrNotInit
          /\ nativeLog' = <<>>
          /\ invoked' = <<>>
          /\ UNCHANGED bridge]_vars

\* C26 witness: the call was made after cleanup() of a bridge that the
\* constructor had initialized, with an argument list that is not empty.
C26_Witness ==
  /\ last.op = "reflectiveCall"
  /\ last.result = "promise:rejected"
  /\ last.error = ErrNotInit
  /\ last.args # <<>>
  /\ options.autoInit
  /\ ~isInitialized
  /\ calls = <<>>

\* C27: an access on the bridge yields a plugin proxy only for a string
\* that is not the name of a member of the bridge object: the name of a
\* member (a method or a field) yields that member and no proxy is ever
\* made for it, a symbol yields undefined, and any other string yields the
\* plugin proxy bound to it.
C27_MembersShadowPlugins ==
  /\ last.op = "get"
       => /\ last.arg \in BridgeMembers
               => last.result = "member" /\ last.proxy = NoProxy
          /\ last.arg = SymbolIterator
               => last.result = "undefined" /\ last.proxy = NoProxy
          /\ last.result = "proxy"
               <=> last.arg \notin BridgeMembers \cup {SymbolIterator}
          /\ last.result = "proxy" => last.proxy.pluginName = last.arg
  /\ \A n \in DOMAIN _pluginProxies :
       _pluginProxies[n].pluginName \notin BridgeMembers \cup {SymbolIterator}

\* C27 witness: 'callbacks', a field of the bridge, was read after a plugin
\* proxy had been made, and the field came back.
C27_Witness ==
  /\ last.op = "get"
  /\ last.arg = "callbacks"
  /\ last.result = "member"
  /\ \E n \in ProxyNames : _pluginProxies[n] # NoProxy

\* cleanup() has returned and nothing was called since.
CleanedUp == last.op = "cleanup" /\ pc = "idle"

\* init() has returned true and nothing was called since.
Initialized == last.op = "init" /\ last.result = "true"

====
